---- MODULE Spec2Model ----
(***************************************************************************)
(* Verification model of ethers-rpc-pool: the Semaphore, the RPCPool       *)
(* provider's retry / failover loop with its Router and the cooldown part  *)
(* of Stats, and the InstrumentedStaticJsonRpcProvider call path.          *)
(*                                                                         *)
(* Each component has its own specification over the same variables; a     *)
(* specification leaves the variables of the other components at their     *)
(* constructed values.                                                     *)
(***************************************************************************)
EXTENDS Integers, Sequences, FiniteSets, TLC

(***************************************************************************)
(* Bounds of the model.                                                    *)
(***************************************************************************)
MaxCapacity == 3
MaxAcq == 4
MaxExtraReleases == 1
MaxEndpoints == 3
MaxAttempts == 3
MaxTicks == 1
MaxPicksCounted == 4
MaxBackoffEndpoints == 5
MaxCalls == 2
MaxInFlight == 2
MaxTakers == 3
MaxCount == 2
MaxBurst == 2
MaxLimTime == 1000
IdleMs == 250
MaxRouterPicks == 5
MaxSetCalls == 3
MaxRegEndpoints == 2
MaxRegCalls == 3

Acqs == 1..MaxAcq
Calls == 1..MaxCalls
Takers == 1..MaxTakers
Handles == 1..(IF MaxAcq > MaxCalls THEN MaxAcq ELSE MaxCalls)
ProviderIds == 1..(IF MaxEndpoints > MaxBackoffEndpoints
                   THEN MaxEndpoints ELSE MaxBackoffEndpoints)

VARIABLES
    max,        \* Semaphore.max (capacity), fixed by the constructor
    inUse,      \* Semaphore.inUse
    queue,      \* Semaphore.queue: waiting acquirers, oldest first
    handle,     \* per acquire() call: "none" (not called), "queued" (promise
                \* pending), "live" (release handle handed out, released =
                \* false), "released" (the handle's released flag is true)
    waited,     \* history: the acquire() calls that found no slot, in the
                \* order they were made
    releaseCalls \* history: per acquire() call, how often its release handle
                \* was called

semVars == <<max, inUse, queue, handle, waited, releaseCalls>>

VARIABLES
    now,                    \* Date.now(), ms
    providerCooldownUntil,  \* Stats._providerCooldownUntil (0: no entry)
    urlCount,               \* params.urls.length = Router.endpoints.length
    attempts,               \* params.retry.attempts
    rr                      \* Router.rr, kept modulo the endpoint count:
                            \* pick() reads it only through rr % n

envVars == <<now, providerCooldownUntil, urlCount, attempts, rr>>

VARIABLES
    spc,            \* where the observed RPCPoolProvider.send() call is:
                    \* "idle", "loop" (running the while loop, synchronous),
                    \* "attempting" (awaiting ep.provider.send), "backoff"
                    \* (awaiting the timer), "success", "failure"
    tried,          \* send(): tried (set of providerIds)
    maxUniqueTries, \* send(): maxUniqueTries
    cur,            \* send(): ep, the endpoint last attempted (0: none)
    lastErr,        \* error caught from the last attempt (NoErr: none)
    delay,          \* send(): jitter, the delay of the last backoff timer
    outcome,        \* what send() returned or threw
    picks,          \* calls of router.pick() by this call, counted up to
                    \* MaxPicksCounted
    invoked,        \* per providerId: calls of ep.provider.send by this call
    backoffs,       \* backoff timers started by this call
    skipFlip        \* flips at every duplicate pick this call skips

poolVars == <<spc, tried, maxUniqueTries, cur, lastErr, delay, outcome,
              picks, invoked, backoffs, skipFlip>>

VARIABLES
    stats,          \* the counters of Stats, one field per private field
    rps,            \* RpsLimiter.rps, in tokens per 1000 s
    burst,          \* RpsLimiter.burst, in millionths of a token
    tokens,         \* RpsLimiter.tokens, in millionths of a token
    lastRefill,     \* RpsLimiter.lastRefill
    paramTimeout,   \* params.timeout of the provider (0: not given)
    cpc,            \* per send() call of the provider: "idle", "taking"
                    \* (awaiting the timer of rpsLimiter.take), "taken",
                    \* "acquiring" (awaiting inFlightLimiter.acquire),
                    \* "inflight" (awaiting withTimeout), "releasing"
                    \* (_sendInstrumented has ended, the finally of send()
                    \* has not run), "done"
    base,           \* per call: the promise of super.send: "none",
                    \* "pending", "settled"
    deadline,       \* per call: when the timer of withTimeout is due
    result,         \* per call: what send() returned or threw
    listener,       \* params.onEvent: "quiet" (returns normally, or is not
                    \* given) or "throwing" (may throw when it is called)
    startedAt,      \* per call: startedAt of _sendInstrumented
    evts            \* per call: the events handed to params.onEvent, in order

provVars == <<stats, rps, burst, tokens, lastRefill, paramTimeout, cpc, base,
              deadline, result, listener, startedAt, evts>>

VARIABLES
    tpc,        \* per take() call made on the limiter directly: "idle",
                \* "sleeping" (awaiting the timer of line 65), "done"
    want,       \* per take() call: count
    wakeAt,     \* per take() call: when its timer is due
    calledAt,   \* history: when take() was called
    waitedMs,   \* history: how long the call took to return
    timers,     \* history: per take() call, the setTimeout calls it made
    contended,  \* history: another take() call was waiting while this one was
    debited     \* history: the tokens paid by all calls together

limVars == <<tpc, want, wakeAt, calledAt, waitedMs, timers, contended, debited>>

VARIABLES
    picked,     \* history: what the pick() calls made on the router directly
                \* returned, oldest first
    lastSet,    \* history: the setCooldown() calls made on the Stats
                \* directly: how many, and the arguments of the last one
                \* with the value it found
    regOpen     \* per endpoint of a pool observed through its Stats only:
                \* the calls that are inside the try block of
                \* _sendInstrumented

routeVars == <<picked, lastSet, regOpen>>

vars == <<semVars, envVars, poolVars, provVars, limVars, routeVars>>

(***************************************************************************)
(* Semaphore (src/src/Semaphore.ts)                                        *)
(***************************************************************************)

\* constructor: max must be a finite number > 0; the model draws integers.
SemaphoreInit(capacities) ==
    /\ max \in capacities
    /\ max > 0
    /\ inUse = 0
    /\ queue = <<>>
    /\ handle = [a \in Handles |-> "none"]
    /\ waited = <<>>
    /\ releaseCalls = [a \in Handles |-> 0]

CanAcquireNow_off_by_one(u, m) == u <= m

\* acquire(): the test of line 12
CanAcquireNow(u, m) == u < m

release_lifo(u, q, h) ==
    LET dec == IF u - 1 > 0 THEN u - 1 ELSE 0 IN
    IF q = <<>>
    THEN [inUse |-> dec, queue |-> q, handle |-> h]
    ELSE [inUse |-> dec + 1, queue |-> SubSeq(q, 1, Len(q) - 1),
          handle |-> [h EXCEPT ![q[Len(q)]] = "live"]]

release_no_wake(u, q, h) ==
    [inUse |-> IF u - 1 > 0 THEN u - 1 ELSE 0, queue |-> q, handle |-> h]

release_no_decrement(u, q, h) ==
    IF q = <<>>
    THEN [inUse |-> u, queue |-> q, handle |-> h]
    ELSE [inUse |-> u + 1, queue |-> Tail(q),
          handle |-> [h EXCEPT ![Head(q)] = "live"]]

\* private release(): decrement clamped at 0, then wake the oldest waiter,
\* whose queued closure does inUse++ and resolves its promise with a handle.
release(u, q, h) ==
    LET dec == IF u - 1 > 0 THEN u - 1 ELSE 0 IN
    IF q = <<>>
    THEN [inUse |-> dec, queue |-> q, handle |-> h]
    ELSE [inUse |-> dec + 1, queue |-> Tail(q),
          handle |-> [h EXCEPT ![Head(q)] = "live"]]

\* acquire() by caller a: take a slot at once, or queue.
acquire(a) ==
    /\ handle[a] = "none"
    /\ IF CanAcquireNow(inUse, max)
       THEN /\ inUse' = inUse + 1
            /\ handle' = [handle EXCEPT ![a] = "live"]
            /\ queue' = queue
            /\ waited' = waited
       ELSE /\ queue' = Append(queue, a)
            /\ handle' = [handle EXCEPT ![a] = "queued"]
            /\ inUse' = inUse
            /\ waited' = Append(waited, a)
    /\ max' = max
    /\ releaseCalls' = releaseCalls

isReleased_never(h) == FALSE

\* The released flag of a handle (lines 16 and 27)
isReleased(h) == h = "released"

\* The calls of release handles made after the handle's first call.
ExtraReleases ==
    Cardinality({p \in Handles \X (1..MaxExtraReleases) : releaseCalls[p[1]] > p[2]})

\* A call of the release handle of acquisition a: a no-op once released.
callRelease(a) ==
    /\ handle[a] \in {"live", "released"}
    /\ isReleased(handle[a]) => ExtraReleases < MaxExtraReleases
    /\ releaseCalls' = [releaseCalls EXCEPT ![a] = @ + 1]
    /\ waited' = waited
    /\ IF isReleased(handle[a])
       THEN UNCHANGED <<inUse, queue, handle>>
       ELSE LET r == release(inUse, queue, [handle EXCEPT ![a] = "released"]) IN
            /\ inUse' = r.inUse
            /\ queue' = r.queue
            /\ handle' = r.handle
    /\ max' = max

SemAcquire == \E a \in Acqs : acquire(a)
SemRelease == \E a \in Acqs : callRelease(a)

(***************************************************************************)
(* Errors and their classification (utils.ts)                              *)
(***************************************************************************)
NoHeader == -1      \* no retry-after header on the error
Null == -1          \* getRetryAfterMs(): null

\* An error thrown by provider p: status 0 and code "" model undefined.
Err(p, status, code, message, retryAfter) ==
    [from |-> p, status |-> status, code |-> code, message |-> message,
     retryAfter |-> retryAfter]

NoErr == Err(0, 0, "", "", NoHeader)

\* The errors the base client of provider p is made to throw.
BaseErrors(p) ==
    { Err(p, 429, "", "rate limit", NoHeader),
      Err(p, 429, "", "rate limit", 0),
      Err(p, 400, "", "bad request", NoHeader),
      Err(p, 0, "TIMEOUT", "timeout", NoHeader) }

getHttpStatus(e) == e.status

\* the message patterns, on the messages of the model
MatchesCloudflare(msg) == msg \in {"error code: 1015"}
MatchesRateLimit(msg) == msg \in {"rate limit", "Too Many Requests"}
MatchesTimeout(msg) == msg \in {"timeout", "RPC timeout"}

isRateLimitError(e) ==
    \/ getHttpStatus(e) = 429
    \/ getHttpStatus(e) = 402
    \/ MatchesCloudflare(e.message)
    \/ MatchesRateLimit(e.message)

isTimeoutError(e) ==
    \/ e.code = "TIMEOUT"
    \/ getHttpStatus(e) = 504
    \/ MatchesTimeout(e.message)

getRetryAfterMs_ignored(e) == Null

getRetryAfterMs(e) ==
    IF e.retryAfter = NoHeader THEN Null ELSE e.retryAfter * 1000

shouldFailover_always(e) == TRUE

shouldFailover(e) == isTimeoutError(e) \/ isRateLimitError(e)

(***************************************************************************)
(* Stats: the cooldown map                                                 *)
(***************************************************************************)
isInCooldown_inclusive(id) == providerCooldownUntil[id] >= now

isInCooldown(id) == providerCooldownUntil[id] > now

setCooldown_max(cd, id, ms) ==
    [cd EXCEPT ![id] = IF @ > now + ms THEN @ ELSE now + ms]

setCooldown(cd, id, ms) == [cd EXCEPT ![id] = now + ms]

RateLimitCooldownMs == 10000

\* The Stats cooldown left by the catch block of _sendInstrumented for error
\* e of provider id (lines 233-239).  The pool is observed while each
\* provider is below the 50-call sample of line 249, so that the timeout
\* branch bumps counters but sets no cooldown.
cooldownAfterError(cd, id, e) ==
    LET ra == getRetryAfterMs(e) IN
    IF isRateLimitError(e)
    THEN setCooldown(cd, id, IF ra # Null THEN ra ELSE RateLimitCooldownMs)
    ELSE cd

(***************************************************************************)
(* Router                                                                  *)
(***************************************************************************)
Undefined == 0      \* endpoints[NaN], the pick() of an empty list

pickScan_stuck(k, r, n) == [ep |-> (r % n) + 1, rr |-> r]

pickScan_ignoring_cooldown(k, r, n) == [ep |-> (r % n) + 1, rr |-> r + 1]

RECURSIVE pickScan_fallback_first(_, _, _)
pickScan_fallback_first(k, r, n) ==
    IF k = n
    THEN [ep |-> 1, rr |-> r + 1]
    ELSE IF ~isInCooldown((r % n) + 1)
         THEN [ep |-> (r % n) + 1, rr |-> r + 1]
         ELSE pickScan_fallback_first(k + 1, r + 1, n)

RECURSIVE pickScan(_, _, _)
\* pick(): the for loop from step k with cursor r over n endpoints, then the
\* fallback of line 25.  Endpoint i of the list has providerId i + 1.
pickScan(k, r, n) ==
    IF k = n
    THEN [ep |-> IF n = 0 THEN Undefined ELSE (r % n) + 1, rr |-> r + 1]
    ELSE IF ~isInCooldown((r % n) + 1)
         THEN [ep |-> (r % n) + 1, rr |-> r + 1]
         ELSE pickScan(k + 1, r + 1, n)

pick == pickScan(0, rr, urlCount)

\* router.pick() is called directly.
RouterPick ==
    /\ urlCount > 0
    /\ Len(picked) < MaxRouterPicks
    /\ picked' = Append(picked, pick.ep)
    /\ UNCHANGED <<lastSet, regOpen>>
    /\ rr' = pick.rr % urlCount
    /\ UNCHANGED <<semVars, poolVars, provVars, limVars, now, providerCooldownUntil,
                   urlCount, attempts>>

\* stats.setCooldown(id, ms) for an endpoint of the router, as the catch
\* block of its provider calls it for a rate limit without retry-after.
RouterSetCooldown ==
    /\ \E id \in 1..urlCount :
           providerCooldownUntil' = setCooldown(providerCooldownUntil, id, RateLimitCooldownMs)
    /\ UNCHANGED <<semVars, poolVars, provVars, limVars, routeVars, now, urlCount,
                   attempts, rr>>

\* No setCooldown() call made on the Stats directly.
NoSet == [n |-> 0, id |-> 0, ms |-> 0, prev |-> 0]

\* The durations setCooldown is called with: a retry-after of 2 s, the
\* default of the rate limit and the short cooldown of the timeouts.
CooldownSamples == {2000, RateLimitCooldownMs, 60000}

\* stats.setCooldown(id, ms), called on the Stats directly.
StatsSetCooldown ==
    /\ lastSet.n < MaxSetCalls
    /\ \E id \in 1..urlCount, ms \in CooldownSamples :
        /\ providerCooldownUntil' = setCooldown(providerCooldownUntil, id, ms)
        /\ lastSet' = [n |-> lastSet.n + 1, id |-> id, ms |-> ms,
                       prev |-> providerCooldownUntil[id]]
    /\ UNCHANGED <<semVars, poolVars, provVars, limVars, picked, regOpen, now, urlCount,
                   attempts, rr>>

(***************************************************************************)
(* RPCPoolProvider.send                                                    *)
(***************************************************************************)
Min(a, b) == IF a < b THEN a ELSE b

Pending == [kind |-> "pending", ep |-> 0, err |-> NoErr]
Returned(p) == [kind |-> "ok", ep |-> p, err |-> NoErr]
NoRpcAvailable == [kind |-> "norpc", ep |-> 0, err |-> NoErr]
Thrown_synthetic(e) == NoRpcAvailable
\* throw e (lines 67-68)
Thrown(e) == [kind |-> "throw", ep |-> e.from, err |-> e]
\* ep.providerId of an undefined ep
TypeErrorThrown == [kind |-> "typeerror", ep |-> 0, err |-> NoErr]

\* Math.random() is r / RandomDen for r in 0 .. RandomDen - 1
RandomDen == 4
RandomSamples == 0..(RandomDen - 1)
\* the draws used for the pool's backoff: the least and the greatest
PoolRandomSamples == {0, RandomDen - 1}

RECURSIVE Pow2(_)
Pow2(n) == IF n <= 0 THEN 1 ELSE 2 * Pow2(n - 1)

baseDelay_uncapped(k) == 1000 * Pow2(k - 1)

\* baseDelay for tried.size = k (line 71)
baseDelay(k) == Min(1000 * Pow2(k - 1), 5000)

\* jitter = Math.random() * baseDelay, in whole ms as the timer takes it
jitter(k, r) == (r * baseDelay(k)) \div RandomDen

maxUniqueTriesOf_ignoring_size(a, n) == a

\* Math.min(retry.attempts, router.size()) (line 57)
maxUniqueTriesOf(a, n) == Min(a, n)

AlreadyTried_never(p) == FALSE

\* tried.has(ep.providerId)
AlreadyTried(p) == p \in tried

BudgetSpent_off_by_one(size, budget) == size > budget

BudgetSpent_always(size, budget) == TRUE

\* tried.size >= maxUniqueTries (line 68)
BudgetSpent(size, budget) == size >= budget

\* A new call of send(): lines 56-57.
PoolSend ==
    /\ spc \in {"idle", "success", "failure"}
    /\ spc' = "loop"
    /\ tried' = {}
    /\ maxUniqueTries' = maxUniqueTriesOf(attempts, urlCount)
    /\ cur' = 0
    /\ lastErr' = NoErr
    /\ delay' = 0
    /\ outcome' = Pending
    /\ picks' = 0
    /\ invoked' = [p \in ProviderIds |-> 0]
    /\ backoffs' = 0
    /\ skipFlip' = FALSE
    /\ UNCHANGED <<semVars, envVars, provVars, limVars, routeVars>>

\* One turn of the while loop up to its await: the loop test, pick(), the
\* duplicate test, and the call of ep.provider.send (lines 59-65); or the
\* throw of line 77 when the loop test fails.
PoolLoop ==
    /\ spc = "loop"
    /\ IF ~(Cardinality(tried) < maxUniqueTries)
       THEN /\ spc' = "failure"
            /\ outcome' = NoRpcAvailable
            /\ UNCHANGED <<tried, cur, picks, invoked, rr, skipFlip>>
       ELSE LET pk == pick IN
            /\ rr' = IF urlCount = 0 THEN pk.rr ELSE pk.rr % urlCount
            /\ picks' = Min(picks + 1, MaxPicksCounted)
            /\ IF pk.ep = Undefined
               THEN /\ spc' = "failure"
                    /\ outcome' = TypeErrorThrown
                    /\ UNCHANGED <<tried, cur, invoked, skipFlip>>
               ELSE IF AlreadyTried(pk.ep)
               THEN /\ skipFlip' = ~skipFlip
                    /\ UNCHANGED <<spc, tried, cur, invoked, outcome>>
               ELSE /\ skipFlip' = skipFlip
                    /\ tried' = tried \cup {pk.ep}
                    /\ cur' = pk.ep
                    /\ invoked' = [invoked EXCEPT ![pk.ep] = @ + 1]
                    /\ spc' = "attempting"
                    /\ outcome' = outcome
    /\ UNCHANGED <<maxUniqueTries, lastErr, delay, backoffs>>
    /\ UNCHANGED <<semVars, provVars, limVars, routeVars, now, providerCooldownUntil, urlCount, attempts>>

\* ep.provider.send resolves: send() returns its result (line 65).
AttemptSucceeds ==
    /\ spc = "attempting"
    /\ spc' = "success"
    /\ outcome' = Returned(cur)
    /\ UNCHANGED <<tried, maxUniqueTries, cur, lastErr, delay, picks, invoked,
                   backoffs, skipFlip>>
    /\ UNCHANGED <<semVars, envVars, provVars, limVars, routeVars>>

\* ep.provider.send rejects with e: the provider's catch block has updated
\* Stats, then the catch block of send() (lines 66-74) rethrows or starts the
\* backoff timer.
AttemptFails ==
    /\ spc = "attempting"
    /\ \E e \in BaseErrors(cur), r \in PoolRandomSamples :
        /\ providerCooldownUntil' = cooldownAfterError(providerCooldownUntil, cur, e)
        /\ lastErr' = e
        /\ IF ~shouldFailover(e) \/ BudgetSpent(Cardinality(tried), maxUniqueTries)
           THEN /\ spc' = "failure"
                /\ outcome' = Thrown(e)
                /\ UNCHANGED <<delay, backoffs>>
           ELSE /\ spc' = "backoff"
                /\ delay' = jitter(Cardinality(tried), r)
                /\ backoffs' = backoffs + 1
                /\ outcome' = outcome
    /\ UNCHANGED <<tried, maxUniqueTries, cur, picks, invoked, skipFlip>>
    /\ UNCHANGED <<semVars, provVars, limVars, routeVars, now, urlCount, attempts, rr>>

\* The backoff timer fires: back to the loop test.
BackoffFires ==
    /\ spc = "backoff"
    /\ spc' = "loop"
    /\ delay' = 0
    /\ UNCHANGED <<tried, maxUniqueTries, cur, lastErr, outcome, picks,
                   invoked, backoffs, skipFlip>>
    /\ UNCHANGED <<semVars, envVars, provVars, limVars, routeVars>>

\* the clock is read at steps of the default cooldown
TickMs == RateLimitCooldownMs

\* The clock advances by one step, which is far longer than the event loop
\* takes to run what is ready: no continuation of a provider call is ready
\* to run and no timer of withTimeout is due.
Tick ==
    /\ now < MaxTicks * TickMs
    /\ \A c \in Calls :
        /\ cpc[c] \notin {"taken", "releasing"}
        /\ cpc[c] = "acquiring" => handle[c] # "live"
        /\ cpc[c] = "inflight" => now < deadline[c]
    /\ now' = now + TickMs
    /\ UNCHANGED <<semVars, poolVars, provVars, limVars, routeVars, providerCooldownUntil, urlCount, attempts,
                   rr>>

\* Another send() in progress calls router.pick() while the observed call is
\* suspended.
OtherPick ==
    /\ spc # "loop"
    /\ urlCount > 0
    /\ rr' = pick.rr % urlCount
    /\ UNCHANGED <<semVars, poolVars, provVars, limVars, routeVars, now, providerCooldownUntil, urlCount,
                   attempts>>

(***************************************************************************)
(* Stats: the counters                                                     *)
(***************************************************************************)
\* The methods called: the calls of one provider observed alone all carry
\* TheMethod.
Methods == {"eth_blockNumber", "eth_call"}
TheMethod == "eth_blockNumber"

\* The private fields as constructed (lines 15-26); an absent key reads 0.
StatsInit ==
    [total |-> 0, inFlight |-> 0, perMethod |-> [m \in Methods |-> 0],
     rateLimitedTotal |-> 0, timeoutTotal |-> 0,
     perProviderInFlight |-> [p \in ProviderIds |-> 0],
     perProviderTotal |-> [p \in ProviderIds |-> 0],
     perProviderTimeout |-> [p \in ProviderIds |-> 0],
     perProviderRateLimited |-> [p \in ProviderIds |-> 0]]

bumpInFlightPerProvider(st, id) ==
    [st EXCEPT !.inFlight = @ + 1, !.perProviderInFlight[id] = @ + 1]

decreaseInFlightPerProvider_only_global(st, id) ==
    [st EXCEPT !.inFlight = IF @ - 1 > 0 THEN @ - 1 ELSE 0]

decreaseInFlightPerProvider(st, id) ==
    [st EXCEPT !.inFlight = IF @ - 1 > 0 THEN @ - 1 ELSE 0,
               !.perProviderInFlight[id] = IF @ - 1 > 0 THEN @ - 1 ELSE 0]

bumpPerMethod(st, m) == [st EXCEPT !.perMethod[m] = @ + 1]

bumpRateLimitedPerProvider(st, id) ==
    [st EXCEPT !.rateLimitedTotal = @ + 1, !.perProviderRateLimited[id] = @ + 1]

bumpTimeoutPerProvider(st, id) ==
    [st EXCEPT !.timeoutTotal = @ + 1, !.perProviderTimeout[id] = @ + 1]

bumpProviderTotal(st, id) ==
    [st EXCEPT !.total = @ + 1, !.perProviderTotal[id] = @ + 1]

(***************************************************************************)
(* RpsLimiter                                                              *)
(***************************************************************************)
TokenUnit == 1000000    \* one token, in the unit of tokens and burst
DefaultRps == 10000     \* rps = 10, in the unit of rps

\* new RpsLimiter(rps, rpsBurst || rps): the capacity the provider passes,
\* for rps in tokens per 1000 s and rpsBurst in tokens (0: not given).
limiterBurst(r, rpsBurst) ==
    IF rpsBurst # 0 THEN rpsBurst * TokenUnit ELSE r * 1000

refill_uncapped(tk, last, t) ==
    IF rps <= 0 \/ t - last <= 0
    THEN [tokens |-> tk, lastRefill |-> last]
    ELSE [tokens |-> tk + (t - last) * rps, lastRefill |-> t]

\* refill(now): elapsed ms times rps tokens per 1000 s is millionths of a
\* token.
refill(tk, last, t) ==
    IF rps <= 0 \/ t - last <= 0
    THEN [tokens |-> tk, lastRefill |-> last]
    ELSE [tokens |-> Min(burst, tk + (t - last) * rps), lastRefill |-> t]

\* One pass of the loop of take(count) for call c: refill, then pay and
\* return, or sleep.
takePass(c, count) ==
    LET f == refill(tokens, lastRefill, now) IN
    /\ lastRefill' = f.lastRefill
    /\ IF f.tokens >= count * TokenUnit
       THEN /\ tokens' = f.tokens - count * TokenUnit
            /\ cpc' = [cpc EXCEPT ![c] = "taken"]
       ELSE /\ tokens' = f.tokens
            /\ cpc' = [cpc EXCEPT ![c] = "taking"]

CeilDiv(a, b) == (a + b - 1) \div b

\* The default of the constructor's burst: Math.max(1, Math.ceil(rps))
defaultBurst(r) ==
    IF CeilDiv(r, 1000) > 1 THEN CeilDiv(r, 1000) * TokenUnit ELSE TokenUnit

takeDisabled_never(r) == FALSE

\* take(): the test of line 41
takeDisabled(r) == r = 0 \/ r <= 0

ChunkMs == 250

\* take(): Math.min(waitMs, 250) for waitMs = ceil((need / rps) * 1000) and
\* need = count - tokens
sleepMs(count, tk) == Min(CeilDiv(count * TokenUnit - tk, rps), ChunkMs)

\* The take() calls on the limiter that are waiting for their timer.
Sleepers == {k \in DOMAIN tpc : tpc[k] = "sleeping"}

\* One pass of the loop of take(want[k]) for the direct call k: refill,
\* then pay and return, or set the timer.
limPass(k, count) ==
    LET f == refill(tokens, lastRefill, now) IN
    /\ lastRefill' = f.lastRefill
    /\ contended' = [j \in DOMAIN contended |->
                        \/ contended[j]
                        \/ j = k /\ Sleepers \ {k} # {}
                        \/ j # k /\ j \in Sleepers]
    /\ IF f.tokens >= count * TokenUnit
       THEN /\ tokens' = f.tokens - count * TokenUnit
            /\ debited' = debited + count * TokenUnit
            /\ tpc' = [tpc EXCEPT ![k] = "done"]
            /\ waitedMs' = [waitedMs EXCEPT ![k] = now - calledAt'[k]]
            /\ UNCHANGED <<wakeAt, timers>>
       ELSE /\ tokens' = f.tokens
            /\ tpc' = [tpc EXCEPT ![k] = "sleeping"]
            /\ wakeAt' = [wakeAt EXCEPT ![k] = now + sleepMs(count, f.tokens)]
            /\ timers' = [timers EXCEPT ![k] = @ + 1]
            /\ UNCHANGED <<debited, waitedMs>>

\* take(count) is called on the limiter: it returns at once, or runs to its
\* first sleep.  The calls are numbered in the order they are made.
LimTake(k) ==
    /\ tpc[k] = "idle"
    /\ \A j \in DOMAIN tpc : j < k => tpc[j] # "idle"
    /\ \E count \in 1..MaxCount :
        /\ want' = [want EXCEPT ![k] = count]
        /\ calledAt' = [calledAt EXCEPT ![k] = now]
        /\ IF takeDisabled(rps)
           THEN /\ tpc' = [tpc EXCEPT ![k] = "done"]
                /\ UNCHANGED <<tokens, lastRefill, wakeAt, waitedMs, timers,
                               contended, debited>>
           ELSE limPass(k, count)
    /\ UNCHANGED <<semVars, envVars, poolVars, routeVars, stats, rps, burst,
                   paramTimeout, cpc, base, deadline, result, listener,
                   startedAt, evts>>

\* The timer of a sleeping take() fires, on time, and the loop runs again.
LimWake(k) ==
    /\ tpc[k] = "sleeping"
    /\ now >= wakeAt[k]
    /\ UNCHANGED <<semVars, envVars, poolVars, routeVars, stats, rps, burst,
                   paramTimeout, cpc, base, deadline, result, listener,
                   startedAt, evts, want, calledAt>>
    /\ limPass(k, want[k])

\* Time passes, to the next timer due or by an idle step; no timer is late.
LimAdvance ==
    /\ \E t \in {now + IdleMs} \cup {wakeAt[k] : k \in Sleepers} :
        /\ t > now
        /\ t <= MaxLimTime
        /\ \A k \in Sleepers : t <= wakeAt[k]
        /\ now' = t
    /\ UNCHANGED <<semVars, poolVars, provVars, limVars, routeVars, providerCooldownUntil,
                   urlCount, attempts, rr>>

\* The cooldown the test of the 429 names in its title: 600s.
StatedRateLimitCooldownMs == 600000

\* The default timeout the README states for perUrl.timeout: 10s.
DocumentedTimeoutMs == 10000

(***************************************************************************)
(* InstrumentedStaticJsonRpcProvider (the class of lines 157-276)          *)
(***************************************************************************)
Self == 1               \* the providerId of the provider observed
DefaultTimeoutMs == 100000
MinSample == 50
LongCooldownMs == 600000
ShortCooldownMs == 60000
JitterMs == 1000

timeoutOf_default(t) == DefaultTimeoutMs

\* this.params.timeout || 10_0000
timeoutOf(t) == IF t # 0 THEN t ELSE DefaultTimeoutMs

\* The error the timer of withTimeout rejects with.
TimeoutError(p) == Err(p, 0, "TIMEOUT", "RPC timeout", NoHeader)

\* The counters after the catch block for error e.
statsAfterError(st, id, e) ==
    LET s1 == IF isRateLimitError(e) THEN bumpRateLimitedPerProvider(st, id) ELSE st
    IN  IF isTimeoutError(e) THEN bumpTimeoutPerProvider(s1, id) ELSE s1

cooldownAfterCatch_always_short(cd, st, id, e, j) ==
    LET ra == getRetryAfterMs(e)
        c1 == IF isRateLimitError(e)
              THEN setCooldown(cd, id, IF ra # Null THEN ra ELSE RateLimitCooldownMs)
              ELSE cd
        n == st.perProviderTotal[id]
        t == st.perProviderTimeout[id]
    IN  IF isTimeoutError(e) /\ n >= MinSample /\ n # 0 /\ 5 * t >= n
        THEN setCooldown(c1, id, (IF ra # Null THEN ra ELSE ShortCooldownMs) + j)
        ELSE c1

cooldownAfterCatch_no_sample(cd, st, id, e, j) ==
    LET ra == getRetryAfterMs(e)
        c1 == IF isRateLimitError(e)
              THEN setCooldown(cd, id, IF ra # Null THEN ra ELSE RateLimitCooldownMs)
              ELSE cd
        n == st.perProviderTotal[id]
        t == st.perProviderTimeout[id]
        cooldownMs == IF n # 0 /\ 2 * t >= n THEN LongCooldownMs ELSE ShortCooldownMs
    IN  IF isTimeoutError(e) /\ n # 0 /\ 5 * t >= n
        THEN setCooldown(c1, id, (IF ra # Null THEN ra ELSE cooldownMs) + j)
        ELSE c1

\* The cooldown map after the catch block for error e, st the counters the
\* block leaves and j the value of Math.floor(Math.random() * 1000).
cooldownAfterCatch(cd, st, id, e, j) ==
    LET ra == getRetryAfterMs(e)
        c1 == IF isRateLimitError(e)
              THEN setCooldown(cd, id, IF ra # Null THEN ra ELSE RateLimitCooldownMs)
              ELSE cd
        n == st.perProviderTotal[id]
        t == st.perProviderTimeout[id]
        cooldownMs == IF n # 0 /\ 2 * t >= n THEN LongCooldownMs ELSE ShortCooldownMs
    IN  IF isTimeoutError(e) /\ n >= MinSample /\ n # 0 /\ 5 * t >= n
        THEN setCooldown(c1, id, (IF ra # Null THEN ra ELSE cooldownMs) + j)
        ELSE c1

\* send(method, params) is called: rpsLimiter.take(1) runs to its return or
\* to its first sleep.  The calls are numbered in the order they are made.
ProvSend(c) ==
    /\ cpc[c] = "idle"
    /\ \A d \in Calls : d < c => cpc[d] # "idle"
    /\ IF rps = 0 \/ rps <= 0
       THEN /\ cpc' = [cpc EXCEPT ![c] = "taken"]
            /\ UNCHANGED <<tokens, lastRefill>>
       ELSE takePass(c, 1)
    /\ UNCHANGED <<semVars, envVars, poolVars, limVars, routeVars, stats, rps, burst, paramTimeout,
                   base, deadline, result, listener, startedAt, evts>>

\* The sleep of take() ends and the loop runs again.
TakeWakes(c) ==
    /\ cpc[c] = "taking"
    /\ takePass(c, 1)
    /\ UNCHANGED <<semVars, envVars, poolVars, limVars, routeVars, stats, rps, burst, paramTimeout,
                   base, deadline, result, listener, startedAt, evts>>

\* send() goes on after take(): inFlightLimiter.acquire().
ProvAcquire(c) ==
    /\ cpc[c] = "taken"
    /\ acquire(c)
    /\ cpc' = [cpc EXCEPT ![c] = "acquiring"]
    /\ UNCHANGED <<envVars, poolVars, limVars, routeVars, stats, rps, burst, tokens, lastRefill,
                   paramTimeout, base, deadline, result, listener, startedAt, evts>>

\* What params.onEvent may do when it is called: TRUE, it throws.
ListenerThrows == IF listener = "throwing" THEN BOOLEAN ELSE {FALSE}

\* The error a throwing listener throws.
ListenerError(p) == Err(p, 0, "", "listener failed", NoHeader)

\* The events of _sendInstrumented, as far as they are told apart here.
RequestEvent == [type |-> "request", isRateLimit |-> FALSE, isTimeout |-> FALSE]
ResponseEvent == [type |-> "response", isRateLimit |-> FALSE, isTimeout |-> FALSE]
ErrorEvent(e) ==
    [type |-> "error", isRateLimit |-> isRateLimitError(e), isTimeout |-> isTimeoutError(e)]

\* The slot is held: _sendInstrumented bumps the counters and hands the
\* request event to the listener; then, inside the try block, it calls
\* super.send and arms the timer of withTimeout.  A listener that throws
\* ends _sendInstrumented before the try block is entered.
ProvForward(c) ==
    /\ cpc[c] = "acquiring"
    /\ handle[c] = "live"
    /\ stats' = bumpPerMethod(bumpProviderTotal(bumpInFlightPerProvider(stats, Self), Self),
                              TheMethod)
    /\ startedAt' = [startedAt EXCEPT ![c] = now]
    /\ evts' = [evts EXCEPT ![c] = <<RequestEvent>>]
    /\ \E th \in ListenerThrows :
        IF th
        THEN /\ result' = [result EXCEPT ![c] = Thrown(ListenerError(Self))]
             /\ cpc' = [cpc EXCEPT ![c] = "releasing"]
             /\ UNCHANGED <<base, deadline>>
        ELSE /\ base' = [base EXCEPT ![c] = "pending"]
             /\ deadline' = [deadline EXCEPT ![c] = now + timeoutOf(paramTimeout)]
             /\ cpc' = [cpc EXCEPT ![c] = "inflight"]
             /\ UNCHANGED result
    /\ UNCHANGED <<semVars, envVars, poolVars, limVars, routeVars, rps, burst, tokens, lastRefill,
                   paramTimeout, listener>>

\* The await of withTimeout ends with outcome o.  On a result the response
\* event is handed to the listener (th1: the listener throws, which the
\* catch block catches); the catch block bumps the counters, sets the
\* cooldowns and hands the error event to the listener (th2: the listener
\* throws, and its error replaces the one caught); then the finally block.
endCall(c, o, j, th1, th2) ==
    LET caught == o.kind = "throw" \/ th1
        e == IF o.kind = "throw" THEN o.err ELSE ListenerError(Self)
        st == IF caught THEN statsAfterError(stats, Self, e) ELSE stats
    IN  /\ providerCooldownUntil' =
               IF caught
               THEN cooldownAfterCatch(providerCooldownUntil, st, Self, e, j)
               ELSE providerCooldownUntil
        /\ stats' = decreaseInFlightPerProvider(st, Self)
        /\ evts' = [evts EXCEPT ![c] =
                       @ \o (IF o.kind = "throw" THEN <<>> ELSE <<ResponseEvent>>)
                         \o (IF caught THEN <<ErrorEvent(e)>> ELSE <<>>)]
        /\ result' = [result EXCEPT ![c] =
                         IF ~caught THEN o
                         ELSE IF th2 THEN Thrown(ListenerError(Self)) ELSE Thrown(e)]
        /\ cpc' = [cpc EXCEPT ![c] = "releasing"]

\* What the listener does in one run of endCall: it is called once or twice.
endCallChoices(c, o, j) ==
    \E th1 \in (IF o.kind = "throw" THEN {FALSE} ELSE ListenerThrows) :
    \E th2 \in (IF o.kind = "throw" \/ th1 THEN ListenerThrows ELSE {FALSE}) :
        endCall(c, o, j, th1, th2)

\* The errors the base client rejects a request of the provider with: those
\* of BaseErrors, a 429 with retry-after: 2, a 429 whose message matches the
\* timeout pattern, and a 504 with retry-after: 2.
ProvErrors ==
    BaseErrors(Self) \cup
    { Err(Self, 429, "", "rate limit", 2),
      Err(Self, 429, "", "timeout", NoHeader),
      Err(Self, 504, "", "gateway", 2) }

BaseSettles_ending_again(c) ==
    /\ base[c] = "pending"
    /\ base' = [base EXCEPT ![c] = "settled"]
    /\ \E o \in {Returned(Self)} \cup {Thrown(e) : e \in ProvErrors} :
       \E j \in {0, JitterMs - 1} : endCallChoices(c, o, j)
    /\ UNCHANGED <<semVars, poolVars, limVars, routeVars, now, urlCount, attempts, rr, rps, burst,
                   tokens, lastRefill, paramTimeout, deadline, listener, startedAt>>

\* The base client settles the request of call c, with a result or with an
\* error.  The call ends with it unless its timer has fired before.
BaseSettles(c) ==
    /\ base[c] = "pending"
    /\ base' = [base EXCEPT ![c] = "settled"]
    /\ IF cpc[c] = "inflight"
       THEN \E o \in {Returned(Self)} \cup {Thrown(e) : e \in ProvErrors} :
            \E j \in {0, JitterMs - 1} : endCallChoices(c, o, j)
       ELSE UNCHANGED <<providerCooldownUntil, stats, result, cpc, evts>>
    /\ UNCHANGED <<semVars, poolVars, limVars, routeVars, now, urlCount, attempts, rr, rps, burst,
                   tokens, lastRefill, paramTimeout, deadline, listener, startedAt>>

\* The timer of withTimeout fires first: the call ends with the TIMEOUT
\* error, the request of the base client stays as it is.
TimeoutFires(c) ==
    /\ cpc[c] = "inflight"
    /\ now >= deadline[c]
    /\ \E j \in {0, JitterMs - 1} : endCallChoices(c, Thrown(TimeoutError(Self)), j)
    /\ UNCHANGED <<semVars, poolVars, limVars, routeVars, now, urlCount, attempts, rr, rps, burst,
                   tokens, lastRefill, paramTimeout, base, deadline, listener, startedAt>>

\* The finally block of send(): release().
ProvRelease(c) ==
    /\ cpc[c] = "releasing"
    /\ callRelease(c)
    /\ cpc' = [cpc EXCEPT ![c] = "done"]
    /\ UNCHANGED <<envVars, poolVars, limVars, routeVars, stats, rps, burst, tokens, lastRefill,
                   paramTimeout, base, deadline, result, listener, startedAt, evts>>

(***************************************************************************)
(* The providers of one pool, as their shared Stats sees them              *)
(***************************************************************************)
\* _sendInstrumented of the provider of endpoint id starts for method m,
\* the slot of that endpoint held: the counters, then the request event.  A
\* listener that throws ends the call before the try block.
RegStart(id, m) ==
    /\ stats.total < MaxRegCalls
    /\ regOpen[id] < MaxInFlight
    /\ stats' = bumpPerMethod(bumpProviderTotal(bumpInFlightPerProvider(stats, id), id), m)
    /\ \E th \in ListenerThrows :
           regOpen' = [regOpen EXCEPT ![id] = IF th THEN @ ELSE @ + 1]
    /\ UNCHANGED <<semVars, envVars, poolVars, limVars, picked, lastSet, rps, burst, tokens,
                   lastRefill, paramTimeout, cpc, base, deadline, result, listener,
                   startedAt, evts>>

\* The await of a call of endpoint id ends, with a result or with an error
\* of the base client or of withTimeout: catch block, then finally block.
RegEnd(id) ==
    /\ regOpen[id] > 0
    /\ regOpen' = [regOpen EXCEPT ![id] = @ - 1]
    /\ \E ok \in BOOLEAN, e \in BaseErrors(id) \cup {TimeoutError(id)}, j \in {0, JitterMs - 1} :
        LET st == IF ok THEN stats ELSE statsAfterError(stats, id, e) IN
        /\ stats' = decreaseInFlightPerProvider(st, id)
        /\ providerCooldownUntil' =
               IF ok THEN providerCooldownUntil
               ELSE cooldownAfterCatch(providerCooldownUntil, st, id, e, j)
    /\ UNCHANGED <<semVars, poolVars, limVars, picked, lastSet, now, urlCount, attempts, rr,
                   rps, burst, tokens, lastRefill, paramTimeout, cpc, base, deadline,
                   result, listener, startedAt, evts>>

(***************************************************************************)
(* Constructed states and specifications                                   *)
(***************************************************************************)
SemIdle == SemaphoreInit({1})

EnvInit(counts, budgets) ==
    /\ now = 0
    /\ providerCooldownUntil = [p \in ProviderIds |-> 0]
    /\ urlCount \in counts
    /\ attempts \in budgets
    /\ rr = 0

PoolIdle ==
    /\ spc = "idle"
    /\ tried = {}
    /\ maxUniqueTries = 0
    /\ cur = 0
    /\ lastErr = NoErr
    /\ delay = 0
    /\ outcome = Pending
    /\ picks = 0
    /\ invoked = [p \in ProviderIds |-> 0]
    /\ backoffs = 0
    /\ skipFlip = FALSE

RpsLimiterInit_empty(r, b) ==
    /\ rps = r
    /\ burst = b
    /\ tokens = 0
    /\ lastRefill = 0

\* new RpsLimiter(r, b), at time 0
RpsLimiterInit(r, b) ==
    /\ rps = r
    /\ burst = b
    /\ tokens = b
    /\ lastRefill = 0

\* No take() call made on the limiter directly.
LimIdle ==
    /\ tpc = [k \in Takers |-> "idle"]
    /\ want = [k \in Takers |-> 0]
    /\ wakeAt = [k \in Takers |-> 0]
    /\ calledAt = [k \in Takers |-> 0]
    /\ waitedMs = [k \in Takers |-> 0]
    /\ timers = [k \in Takers |-> 0]
    /\ contended = [k \in Takers |-> FALSE]
    /\ debited = 0
    /\ picked = <<>>
    /\ lastSet = NoSet
    /\ regOpen = [p \in ProviderIds |-> 0]

\* The provider as its constructor leaves it, before any send().
ProviderInit(rpsParams, timeouts, listeners) ==
    /\ stats = StatsInit
    /\ listener \in listeners
    /\ \E r \in rpsParams : RpsLimiterInit(r, limiterBurst(r, 0))
    /\ paramTimeout \in timeouts
    /\ LimIdle
    /\ cpc = [c \in Calls |-> "idle"]
    /\ base = [c \in Calls |-> "none"]
    /\ deadline = [c \in Calls |-> 0]
    /\ result = [c \in Calls |-> Pending]
    /\ startedAt = [c \in Calls |-> 0]
    /\ evts = [c \in Calls |-> <<>>]

ProvIdle == ProviderInit({DefaultRps}, {0}, {"quiet"})

\* The semaphore alone, used by MaxAcq callers.
SemInit ==
    /\ SemaphoreInit(1..MaxCapacity)
    /\ EnvInit({0}, {0})
    /\ PoolIdle
    /\ ProvIdle

SemNext ==
    \/ SemAcquire /\ UNCHANGED <<envVars, poolVars, provVars, limVars, routeVars>>
    \/ SemRelease /\ UNCHANGED <<envVars, poolVars, provVars, limVars, routeVars>>

SemSpec == SemInit /\ [][SemNext]_vars

\* The first call of the release handle of acquisition a.
SemFirstRelease(a) ==
    /\ handle[a] = "live"
    /\ callRelease(a)
    /\ UNCHANGED <<envVars, poolVars, provVars, limVars, routeVars>>

\* The semaphore when every holder of a slot calls its release handle.
FairSemSpec == SemSpec /\ \A a \in Acqs : WF_vars(SemFirstRelease(a))

\* The pool: one caller's send() calls, one after the other, beside other
\* traffic on the same Router and Stats.
PoolInit ==
    /\ SemIdle
    /\ EnvInit(0..MaxEndpoints, 0..MaxAttempts)
    /\ PoolIdle
    /\ ProvIdle

PoolNext ==
    \/ PoolSend
    \/ PoolLoop
    \/ AttemptSucceeds
    \/ AttemptFails
    \/ BackoffFires
    \/ Tick
    \/ OtherPick

PoolSpec == PoolInit /\ [][PoolNext]_vars

\* The pool under the scheduling the event loop gives: the running loop
\* goes on, attempts settle and backoff timers fire.
FairPoolSpec ==
    /\ PoolSpec
    /\ WF_vars(PoolLoop)
    /\ WF_vars(AttemptSucceeds \/ AttemptFails)
    /\ WF_vars(BackoffFires)

\* One pool with as many endpoints as attempts, and a standing clock: the
\* longest chains of failovers.
BackoffInit ==
    /\ SemIdle
    /\ EnvInit({MaxBackoffEndpoints}, {MaxBackoffEndpoints})
    /\ PoolIdle
    /\ ProvIdle

BackoffNext ==
    \/ PoolSend
    \/ PoolLoop
    \/ AttemptSucceeds
    \/ AttemptFails
    \/ BackoffFires

BackoffSpec == BackoffInit /\ [][BackoffNext]_vars

\* One provider under MaxCalls send() calls, without a rate limit and with
\* one of a token a second, and with the timeout of one clock step.
RpsSamples == {0, 1000}

ProvInit ==
    /\ SemaphoreInit(1..MaxInFlight)
    /\ EnvInit({0}, {0})
    /\ PoolIdle
    /\ ProviderInit(RpsSamples, {TickMs}, {"quiet"})

ProvNext ==
    \/ \E c \in Calls : ProvSend(c)
    \/ \E c \in Calls : TakeWakes(c)
    \/ \E c \in Calls : ProvAcquire(c)
    \/ \E c \in Calls : ProvForward(c)
    \/ \E c \in Calls : BaseSettles(c)
    \/ \E c \in Calls : TimeoutFires(c)
    \/ \E c \in Calls : ProvRelease(c)
    \/ Tick

ProvSpec == ProvInit /\ [][ProvNext]_vars

\* The steps of a provider whose rate limit is disabled: take() never sleeps.
UnlimitedNext ==
    \/ \E c \in Calls : ProvSend(c)
    \/ \E c \in Calls : ProvAcquire(c)
    \/ \E c \in Calls : ProvForward(c)
    \/ \E c \in Calls : BaseSettles(c)
    \/ \E c \in Calls : TimeoutFires(c)
    \/ \E c \in Calls : ProvRelease(c)
    \/ Tick

\* A provider of one slot and no rate limit, with an onEvent listener that
\* may throw each time it is called.
ListenerInit ==
    /\ SemaphoreInit({1})
    /\ EnvInit({0}, {0})
    /\ PoolIdle
    /\ ProviderInit({0}, {TickMs}, {"throwing"})

ListenerSpec == ListenerInit /\ [][UnlimitedNext]_vars

\* The provider built without rpsBurst and with the default inFlight of 1:
\* rps not given (10) or half a token a second, timeout not given or one
\* clock step.
DefaultRpsSamples == {DefaultRps, 500}

DefaultsInit ==
    /\ SemaphoreInit({1})
    /\ EnvInit({0}, {0})
    /\ PoolIdle
    /\ ProviderInit(DefaultRpsSamples, {0, TickMs}, {"quiet"})

DefaultsSpec == DefaultsInit /\ [][ProvNext]_vars

\* The counters after n calls of the provider have ended, t of them with an
\* error classified as a timeout and none as rate-limited.
StatsAfter(n, t) ==
    [StatsInit EXCEPT !.total = n, !.perMethod[TheMethod] = n, !.timeoutTotal = t,
                      !.perProviderTotal[Self] = n, !.perProviderTimeout[Self] = t]

\* The calls made before, <<calls, timeouts>>: one or two calls short of the
\* minimum sample, the ratio reaching 0.2 or 0.5 with the next timeout.
HealthSamples == {<<49, 9>>, <<49, 24>>, <<48, 24>>}

\* A provider of one slot and no rate limit that has made 48 or 49 calls,
\* all ended and none leaving a cooldown.
HealthInit ==
    /\ SemaphoreInit({1})
    /\ EnvInit({0}, {0})
    /\ PoolIdle
    /\ \E h \in HealthSamples : stats = StatsAfter(h[1], h[2])
    /\ RpsLimiterInit(0, limiterBurst(0, 0))
    /\ paramTimeout = TickMs
    /\ listener = "quiet"
    /\ LimIdle
    /\ cpc = [c \in Calls |-> "idle"]
    /\ base = [c \in Calls |-> "none"]
    /\ deadline = [c \in Calls |-> 0]
    /\ result = [c \in Calls |-> Pending]
    /\ startedAt = [c \in Calls |-> 0]
    /\ evts = [c \in Calls |-> <<>>]

HealthSpec == HealthInit /\ [][UnlimitedNext]_vars

\* One limiter under MaxTakers take() calls of 1..MaxCount tokens: disabled
\* (rps 0 and -1), 2 and 3 tokens a second with the constructor's default
\* burst and with bursts 1..MaxBurst, and half a token a second as the
\* provider builds it.
LimRpsSamples == {0, -1000, 2000, 3000}

LimInit ==
    /\ SemIdle
    /\ EnvInit({0}, {0})
    /\ PoolIdle
    /\ stats = StatsInit
    /\ paramTimeout = 0
    /\ listener = "quiet"
    /\ cpc = [c \in Calls |-> "idle"]
    /\ base = [c \in Calls |-> "none"]
    /\ deadline = [c \in Calls |-> 0]
    /\ result = [c \in Calls |-> Pending]
    /\ startedAt = [c \in Calls |-> 0]
    /\ evts = [c \in Calls |-> <<>>]
    /\ LimIdle
    /\ \/ \E r \in LimRpsSamples : RpsLimiterInit(r, defaultBurst(r))
       \/ \E r \in LimRpsSamples, b \in 1..MaxBurst : RpsLimiterInit(r, b * TokenUnit)
       \/ RpsLimiterInit(500, limiterBurst(500, 0))

LimNext ==
    \/ \E k \in Takers : LimTake(k)
    \/ \E k \in Takers : LimWake(k)
    \/ LimAdvance

LimSpec == LimInit /\ [][LimNext]_vars

\* One router over 1..MaxEndpoints endpoints, picked from while cooldowns
\* are set and expire.
RouterInit ==
    /\ SemIdle
    /\ EnvInit(1..MaxEndpoints, {0})
    /\ PoolIdle
    /\ ProvIdle

RouterNext ==
    \/ RouterPick
    \/ RouterSetCooldown
    \/ Tick

RouterSpec == RouterInit /\ [][RouterNext]_vars

\* One Stats of 1..MaxEndpoints endpoints on which setCooldown is called
\* while time passes.
StatsSpecInit ==
    /\ SemIdle
    /\ EnvInit(1..MaxEndpoints, {0})
    /\ PoolIdle
    /\ ProvIdle

StatsNext ==
    \/ StatsSetCooldown
    \/ Tick

StatsSpec == StatsSpecInit /\ [][StatsNext]_vars

\* The Stats of a pool of MaxRegEndpoints endpoints, of MaxInFlight slots
\* each, under MaxRegCalls calls of two methods, with a listener that may
\* throw.
RegistryInit ==
    /\ SemIdle
    /\ EnvInit({MaxRegEndpoints}, {0})
    /\ PoolIdle
    /\ ProviderInit({0}, {0}, {"throwing"})

RegistryNext ==
    \/ \E id \in 1..urlCount, m \in Methods : RegStart(id, m)
    \/ \E id \in 1..urlCount : RegEnd(id)

RegistrySpec == RegistryInit /\ [][RegistryNext]_vars

(***************************************************************************)
(* C1: the number of acquisitions granted and not yet released never       *)
(* exceeds the capacity, and inUse stays within [0, capacity].             *)
(***************************************************************************)
Unreleased == {a \in Acqs : handle[a] = "live"}

C1_SemaphoreCapacity ==
    /\ Cardinality(Unreleased) <= max
    /\ inUse >= 0
    /\ inUse <= max

\* the semaphore is full, somebody waits and a release has already acted
C1_Witness ==
    /\ inUse = max
    /\ queue # <<>>
    /\ \E a \in Acqs : handle[a] = "released"


(***************************************************************************)
(* Claims about RPCPoolProvider.send                                       *)
(***************************************************************************)
RECURSIVE SumInvoked(_)
SumInvoked(S) ==
    IF S = {} THEN 0
    ELSE LET p == CHOOSE x \in S : TRUE IN invoked[p] + SumInvoked(S \ {p})

\* the number of ep.provider.send calls made by the observed send()
InvokedTotal == SumInvoked(ProviderIds)

Budget == IF attempts < urlCount THEN attempts ELSE urlCount

(***************************************************************************)
(* C11: acquirers that had to wait are granted slots in the order of their *)
(* acquire() calls: a waiter is granted only when it is the earliest one   *)
(* still waiting, and a release with waiters queued grants the earliest.   *)
(***************************************************************************)
StillWaiting == SelectSeq(waited, LAMBDA a : handle[a] = "queued")

C11_SemaphoreFifo ==
    [][ /\ \A a \in Handles :
             (handle[a] = "queued" /\ handle'[a] = "live") => a = Head(StillWaiting)
        /\ \A a \in Handles :
             (handle[a] = "live" /\ handle'[a] = "released" /\ StillWaiting # <<>>)
                 => handle'[Head(StillWaiting)] = "live" ]_vars

C11_Witness ==
    /\ Len(waited) >= 3
    /\ handle[waited[1]] = "released"
    /\ handle[waited[2]] = "live"
    /\ handle[waited[3]] = "queued"

(***************************************************************************)
(* C12: a second or later call of a release handle changes nothing in the  *)
(* semaphore; no release wakes more than one waiter; and inUse stays the   *)
(* number of handles granted and not yet released, so that no extra        *)
(* acquisition gets room.                                                  *)
(***************************************************************************)
C12_ReleaseIdempotent ==
    /\ [](inUse = Cardinality({a \in Handles : handle[a] = "live"}))
    /\ [][ /\ \A a \in Handles :
                 (releaseCalls'[a] = releaseCalls[a] + 1 /\ releaseCalls[a] >= 1)
                     => (inUse' = inUse /\ queue' = queue /\ handle' = handle)
            /\ Cardinality({b \in Handles : handle[b] = "queued" /\ handle'[b] = "live"}) <= 1
          ]_vars

C12_Witness ==
    /\ \E a \in Acqs : releaseCalls[a] >= 2
    /\ \E b \in Acqs : handle[b] = "queued"
    /\ inUse = max

(***************************************************************************)
(* C13: with finitely many acquire() calls and every granted release       *)
(* handle eventually called, every waiting acquirer is eventually granted  *)
(* a slot.                                                                 *)
(***************************************************************************)
C13_SemaphoreLiveness ==
    \A a \in Acqs : (handle[a] = "queued") ~> (handle[a] \in {"live", "released"})

C13_Witness ==
    \E i \in 1..Len(waited) :
        /\ handle[waited[i]] \in {"live", "released"}
        /\ \A b \in Acqs : handle[b] # "none"

(***************************************************************************)
(* C14: a newly built limiter with rps > 0 and a burst of b whole tokens   *)
(* grants, while no time passes, exactly b take(1) calls with no wait and  *)
(* no timer; every take(1) after them has to wait.                         *)
(***************************************************************************)
TakesCalled == {k \in Takers : tpc[k] # "idle"}
TakesGrantedAtOnce ==
    {k \in TakesCalled : tpc[k] = "done" /\ timers[k] = 0 /\ waitedMs[k] = 0}

C14_InitialBurst ==
    (/\ rps > 0
     /\ burst % TokenUnit = 0
     /\ now = 0
     /\ \A k \in TakesCalled : want[k] = 1)
        => /\ Cardinality(TakesGrantedAtOnce)
                = Min(Cardinality(TakesCalled), burst \div TokenUnit)
           /\ \A k \in TakesCalled \ TakesGrantedAtOnce :
                  tpc[k] = "sleeping" /\ timers[k] = 1

C14_Witness ==
    /\ rps > 0 /\ burst = 2 * TokenUnit /\ now = 0
    /\ \A k \in 1..3 : want[k] = 1
    /\ tpc[1] = "done" /\ tpc[2] = "done" /\ tpc[3] = "sleeping"

(***************************************************************************)
(* C15: 0 <= tokens <= burst always, under every interleaving of take()    *)
(* calls and after idle time of any length; and what all takes have paid   *)
(* plus what is left never exceeds the first bucket plus the refill of the *)
(* time passed.                                                            *)
(***************************************************************************)
C15_TokenInvariant ==
    /\ tokens >= 0
    /\ tokens <= burst
    /\ debited + tokens <= burst + (IF rps > 0 THEN now * rps ELSE 0)

C15_Witness ==
    /\ rps > 0
    /\ debited > 0
    /\ tokens = burst
    /\ lastRefill * rps > debited
    /\ \E k \in Takers : tpc[k] = "done" /\ timers[k] > 0

(***************************************************************************)
(* C16: for rps = r > 0 a take(n) that no other take() competes with       *)
(* returns after no more than ceil(n / r * 1000) ms: it has returned       *)
(* within that time, or its timer is due within it.                        *)
(***************************************************************************)
WaitBound(k) == CeilDiv(want[k] * TokenUnit, rps)

C16_WaitBound ==
    \A k \in Takers :
        (rps > 0 /\ ~contended[k]) =>
            /\ tpc[k] = "done" => waitedMs[k] <= WaitBound(k)
            /\ tpc[k] = "sleeping" => wakeAt[k] <= calledAt[k] + WaitBound(k)

(***************************************************************************)
(* C17: with rps <= 0 every take(n) returns at once: no call sleeps or     *)
(* sets a timer, and tokens and lastRefill stay as constructed.            *)
(***************************************************************************)
C17_DisabledLimiter ==
    rps <= 0 =>
        /\ tokens = burst
        /\ lastRefill = 0
        /\ debited = 0
        /\ \A k \in Takers : tpc[k] # "sleeping" /\ timers[k] = 0 /\ waitedMs[k] = 0

C17_Witness ==
    /\ rps < 0
    /\ now > 0
    /\ \A k \in Takers : tpc[k] = "done"
    /\ \E k \in Takers : want[k] = MaxCount

(***************************************************************************)
(* C18: a pick() made while no endpoint is in cooldown returns the         *)
(* endpoint at the cursor and moves the cursor by one; while no cooldown   *)
(* was ever set the picks are the list in cyclic order from its first      *)
(* endpoint, so that any n consecutive picks are the n endpoints.          *)
(***************************************************************************)
InCooldownNow == {i \in 1..urlCount : isInCooldown(i)}
PickStep == Len(picked') = Len(picked) + 1
PickReturned == picked'[Len(picked')]

C18_RoundRobin ==
    /\ [][(PickStep /\ InCooldownNow = {})
            => (PickReturned = rr + 1 /\ rr' = (rr + 1) % urlCount)]_vars
    /\ []((\A i \in 1..urlCount : providerCooldownUntil[i] = 0) =>
            /\ \A i \in 1..Len(picked) : picked[i] = ((i - 1) % urlCount) + 1
            /\ \A i \in 1..Len(picked) :
                  i + urlCount - 1 <= Len(picked)
                      => {picked[j] : j \in i..(i + urlCount - 1)} = 1..urlCount)

C18_Witness ==
    /\ urlCount = 3
    /\ \A i \in 1..urlCount : providerCooldownUntil[i] = 0
    /\ picked = <<1, 2, 3, 1, 2>>

(***************************************************************************)
(* C19: a pick() made while some endpoint is not in cooldown returns an    *)
(* endpoint that is not in cooldown, the first such one at or after the    *)
(* cursor in cyclic order, and leaves the cursor just after it.            *)
(***************************************************************************)
CursorDistance(i) == ((i - 1) - rr + urlCount) % urlCount

C19_CooldownSkip ==
    [][(PickStep /\ InCooldownNow # 1..urlCount)
        => /\ PickReturned \in 1..urlCount
           /\ ~isInCooldown(PickReturned)
           /\ \A j \in 1..urlCount :
                  CursorDistance(j) < CursorDistance(PickReturned) => isInCooldown(j)
           /\ rr' = PickReturned % urlCount]_vars

C19_Witness ==
    /\ urlCount = 3
    /\ InCooldownNow = {2}
    /\ picked = <<1, 3, 1, 3>>

(***************************************************************************)
(* C20: a pick() made while every endpoint (one at least) is in cooldown   *)
(* still returns an endpoint, the one at the cursor, and moves the cursor  *)
(* by one position in cyclic order.                                        *)
(***************************************************************************)
C20_FullCooldown ==
    [][(PickStep /\ urlCount >= 1 /\ InCooldownNow = 1..urlCount)
        => /\ PickReturned \in 1..urlCount
           /\ PickReturned = rr + 1
           /\ rr' = (rr + 1) % urlCount]_vars

C20_Witness ==
    /\ urlCount = 3
    /\ InCooldownNow = 1..3
    /\ picked = <<1, 2, 3, 1>>
    /\ now = 0

(***************************************************************************)
(* C21: every call that acquired the slot releases it exactly once and     *)
(* decrements the endpoint's and the global in-flight counter exactly      *)
(* once, however it ends (success, base-client error, timeout, any other   *)
(* exception): the two counters always equal the number of calls that are  *)
(* inside the try block, and a call that has ended has called its release  *)
(* handle once.                                                            *)
(***************************************************************************)
InTryBlock == {c \in Calls : cpc[c] = "inflight"}

C21_CleanupOnEveryExit ==
    /\ stats.perProviderInFlight[Self] = Cardinality(InTryBlock)
    /\ stats.inFlight = Cardinality(InTryBlock)
    /\ \A c \in Calls : cpc[c] = "done" => releaseCalls[c] = 1 /\ isReleased(handle[c])

(***************************************************************************)
(* C24: a step that forwards a call increments the global total, the       *)
(* endpoint's total and the method's count by exactly one, and no other    *)
(* step changes them; when a successful call has completed and no call is  *)
(* in progress, the global and the endpoint's in-flight counter are zero.  *)
(***************************************************************************)
InProgress == {c \in Calls : cpc[c] \notin {"idle", "done"}}

Forwarding == {c \in Calls : cpc[c] = "acquiring" /\ cpc'[c] \in {"inflight", "releasing"}}

CountsOfCalls(st) == <<st.total, st.perProviderTotal[Self], st.perMethod[TheMethod]>>

BumpedByOne(st) ==
    <<st.total + 1, st.perProviderTotal[Self] + 1, st.perMethod[TheMethod] + 1>>

C24_CallAccounting ==
    /\ []((InProgress = {} /\ \E c \in Calls : cpc[c] = "done" /\ result[c] = Returned(Self))
            => stats.inFlight = 0 /\ stats.perProviderInFlight[Self] = 0)
    /\ [][IF Forwarding # {}
          THEN CountsOfCalls(stats') = BumpedByOne(stats)
          ELSE CountsOfCalls(stats') = CountsOfCalls(stats)]_vars

(***************************************************************************)
(* C25: a forwarded call emits exactly one request event and then exactly  *)
(* one terminal event: the response event if it succeeded, the error event *)
(* if it failed, carrying the classification of the error thrown; never    *)
(* both, never a terminal event first.                                     *)
(***************************************************************************)
EventsOf(c) ==
    IF cpc[c] \in {"idle", "taking", "taken", "acquiring"} THEN <<>>
    ELSE IF cpc[c] = "inflight" THEN <<RequestEvent>>
    ELSE IF result[c].kind = "ok" THEN <<RequestEvent, ResponseEvent>>
    ELSE <<RequestEvent, ErrorEvent(result[c].err)>>

C25_EventSequence == \A c \in Calls : evts[c] = EventsOf(c)

(***************************************************************************)
(* C22: with a timeout configured, a call is never inside the try block    *)
(* or about to release for longer than the timeout after it was forwarded, *)
(* and once the timeout has passed its timer is due; the step in which     *)
(* the timer ends the call happens at that time, bumps the global and the  *)
(* endpoint's timeout counter by one and leaves the call with an error of  *)
(* code TIMEOUT, classified isTimeout; the call then releases its slot.    *)
(***************************************************************************)
TimedOut == {c \in Calls : cpc[c] \in {"releasing", "done"} /\ base[c] = "pending"}

TimingOut == {c \in Calls : cpc[c] = "inflight" /\ cpc'[c] = "releasing" /\ base'[c] = "pending"}

C22_PerCallTimeout ==
    /\ [](\A c \in Calls :
            /\ cpc[c] \in {"inflight", "releasing"} =>
                   /\ now - startedAt[c] <= paramTimeout
                   /\ now - startedAt[c] >= paramTimeout => cpc[c] = "releasing" \/ deadline[c] <= now
            /\ c \in TimedOut =>
                   /\ result[c].kind = "throw"
                   /\ result[c].err.code = "TIMEOUT"
                   /\ isTimeoutError(result[c].err)
            /\ cpc[c] = "done" => isReleased(handle[c]))
    /\ [][\A c \in TimingOut :
            /\ now = startedAt[c] + paramTimeout
            /\ stats'.timeoutTotal = stats.timeoutTotal + 1
            /\ stats'.perProviderTimeout[Self] = stats.perProviderTimeout[Self] + 1]_vars

C22_Witness ==
    \E c \in Calls :
        /\ cpc[c] = "done"
        /\ base[c] = "pending"
        /\ result[c] = Thrown(TimeoutError(Self))
        /\ now = startedAt[c] + paramTimeout
        /\ isReleased(handle[c])
        /\ stats.timeoutTotal >= 1

(***************************************************************************)
(* C23: with no timeout configured, a call whose base client has not       *)
(* answered 10000 ms after it was forwarded is ended by its timer: once    *)
(* that time has passed the timer of the call is due.                      *)
(***************************************************************************)
C23_DefaultTimeout ==
    \A c \in Calls :
        (paramTimeout = 0 /\ cpc[c] = "inflight" /\ now - startedAt[c] >= DocumentedTimeoutMs)
            => deadline[c] <= now

(***************************************************************************)
(* C29: a provider built without rpsBurst has a limiter of burst           *)
(* ceil(rps); for every rps > 0 the burst is at least one token, so that   *)
(* take(1) can be paid.                                                    *)
(***************************************************************************)
C29_DefaultBurst ==
    rps > 0 => burst = CeilDiv(rps, 1000) * TokenUnit /\ burst >= TokenUnit

(***************************************************************************)
(* C26 as stated: a call that fails with an error classified as            *)
(* rate-limited adds one to the global and to the endpoint's rate-limited  *)
(* counter and sets the endpoint's cooldown to the retry-after value if    *)
(* the error has one and to the fixed default otherwise, so that the       *)
(* endpoint is in cooldown for the router.                                 *)
(***************************************************************************)
Failing == {c \in Calls : cpc[c] = "inflight" /\ cpc'[c] = "releasing" /\ result'[c].kind = "throw"}

RateLimitBumped ==
    /\ stats'.rateLimitedTotal = stats.rateLimitedTotal + 1
    /\ stats'.perProviderRateLimited[Self] = stats.perProviderRateLimited[Self] + 1

RateLimitDuration(e) ==
    IF e.retryAfter # NoHeader THEN e.retryAfter * 1000 ELSE RateLimitCooldownMs

TimeoutThresholds(st) ==
    /\ st.perProviderTotal[Self] >= MinSample
    /\ 5 * st.perProviderTimeout[Self] >= st.perProviderTotal[Self]

C28_TakeProgress ==
    \A k \in Takers :
        (rps > 0 /\ tpc[k] = "sleeping") => want[k] * TokenUnit <= burst

(***************************************************************************)
(* C30: setCooldown(id, d) at time t leaves cooldownUntil[id] = t + d,     *)
(* whatever the value was before (not its sum with d, not the later of     *)
(* the two), and leaves the cooldown of every other endpoint and every     *)
(* counter as it was.                                                      *)
(***************************************************************************)
C30_LastWriteWins ==
    [][lastSet'.n # lastSet.n =>
          /\ providerCooldownUntil'[lastSet'.id] = now + lastSet'.ms
          /\ \A p \in ProviderIds \ {lastSet'.id} :
                 providerCooldownUntil'[p] = providerCooldownUntil[p]
          /\ stats' = stats]_vars

C30_Witness ==
    /\ lastSet.n >= 2
    /\ lastSet.prev > now
    /\ providerCooldownUntil[lastSet.id] = now + lastSet.ms
    /\ providerCooldownUntil[lastSet.id] < lastSet.prev
    /\ \E p \in 1..urlCount : p # lastSet.id /\ providerCooldownUntil[p] > 0

(***************************************************************************)
(* C31: isInCooldown(id) is true exactly while now < cooldownUntil[id];    *)
(* a pick() made when the endpoint at the cursor has its cooldown at or    *)
(* before now returns that endpoint, with nothing done to recover it, so   *)
(* an endpoint that was skipped is returned again once its time is up.     *)
(***************************************************************************)
C31_CooldownSelfHeals ==
    /\ [](\A i \in 1..urlCount : isInCooldown(i) <=> now < providerCooldownUntil[i])
    /\ [][(PickStep /\ providerCooldownUntil[rr + 1] <= now)
            => PickReturned = rr + 1]_vars

C31_Witness ==
    /\ urlCount = 2
    /\ picked = <<2, 1>>
    /\ now > 0
    /\ providerCooldownUntil[1] = now
    /\ ~isInCooldown(1)

(***************************************************************************)
(* C32: a call that fails with a timeout-classified error without          *)
(* retry-after, the thresholds being met, sets the cooldown to 60000 ms    *)
(* plus a jitter in [0, 1000) when timeouts / calls is below 0.5 and to    *)
(* 600000 ms plus such a jitter when it is 0.5 or more; before the 50th    *)
(* call, with no rate-limited error, no cooldown has been set at all, so   *)
(* the 10th timeout after 40 successes makes the only setCooldown call.    *)
(***************************************************************************)
C32_TimeoutCooldownDuration ==
    /\ []((stats.perProviderTotal[Self] < MinSample /\ stats.perProviderRateLimited[Self] = 0)
            => providerCooldownUntil[Self] = 0)
    /\ [][\A c \in Failing :
            LET e == result'[c].err
                n == stats'.perProviderTotal[Self]
                t == stats'.perProviderTimeout[Self]
                d == IF 2 * t >= n THEN LongCooldownMs ELSE ShortCooldownMs
                until == providerCooldownUntil'[Self]
            IN  (isTimeoutError(e) /\ TimeoutThresholds(stats') /\ e.retryAfter = NoHeader)
                    => until >= now + d /\ until < now + d + JitterMs]_vars

C32_Witness ==
    /\ stats.perProviderTotal[Self] = MinSample
    /\ stats.perProviderTimeout[Self] = 25
    /\ providerCooldownUntil[Self] = now + LongCooldownMs + JitterMs - 1
    /\ \E c \in Calls : cpc[c] = "releasing" /\ result[c] = Thrown(TimeoutError(Self))

(***************************************************************************)
(* C33: a call that fails with a 429 without retry-after sets the          *)
(* endpoint's cooldown to 600 s.                                           *)
(***************************************************************************)
C33_RateLimitDefaultCooldown ==
    [][\A c \in Failing :
         LET e == result'[c].err IN
         (getHttpStatus(e) = 429 /\ e.retryAfter = NoHeader /\ ~isTimeoutError(e))
             => providerCooldownUntil'[Self] = now + StatedRateLimitCooldownMs]_vars

(***************************************************************************)
(* C34: when the base client settles a request whose call was already      *)
(* ended by its timer, the step changes no counter and no cooldown, emits  *)
(* no event, releases no slot and leaves every call's result as it was:    *)
(* the result of that call is the TIMEOUT error, before and after.         *)
(***************************************************************************)
SettlingLate == {c \in Calls : base[c] = "pending" /\ base'[c] = "settled" /\ cpc[c] # "inflight"}

C34_LateCompletionInert ==
    [][\A c \in SettlingLate :
          /\ stats' = stats
          /\ providerCooldownUntil' = providerCooldownUntil
          /\ evts' = evts
          /\ semVars' = semVars
          /\ cpc' = cpc
          /\ result' = result
          /\ result[c] = Thrown(TimeoutError(Self))]_vars

C34_Witness ==
    \E c \in Calls :
        /\ base[c] = "settled"
        /\ cpc[c] = "done"
        /\ result[c] = Thrown(TimeoutError(Self))
        /\ evts[c] = <<RequestEvent, ErrorEvent(TimeoutError(Self))>>
        /\ stats.total = 1
        /\ stats.timeoutTotal = 1
        /\ stats.rateLimitedTotal = 0
        /\ inUse = 0

(***************************************************************************)
(* C35: whenever the queue of the semaphore is not empty, inUse equals     *)
(* the capacity; an acquire() made while acquirers are waiting is put at   *)
(* the end of the queue and gets no slot in that step.                     *)
(***************************************************************************)
Acquiring == {a \in Acqs : handle[a] = "none" /\ handle'[a] # "none"}

C35_NoBarging ==
    /\ [](queue # <<>> => inUse = max)
    /\ [][\A a \in Acquiring :
            queue # <<>> =>
                /\ handle'[a] = "queued"
                /\ queue' = Append(queue, a)
                /\ inUse' = inUse]_vars

C35_Witness ==
    /\ max = 1
    /\ inUse = 1
    /\ queue = <<3, 4>>
    /\ handle[1] = "released"
    /\ handle[2] = "live"

(***************************************************************************)
(* C37: the endpoint's in-flight counter never exceeds the endpoint's      *)
(* inFlight capacity.                                                      *)
(***************************************************************************)
C37_InFlightCounterBound == stats.perProviderInFlight[Self] <= max

(***************************************************************************)
(* C36: whatever calls the endpoints of a pool have started and ended, the *)
(* global in-flight counter is the sum of the endpoints' in-flight         *)
(* counters, the global total is the sum of the endpoints' totals and the  *)
(* sum of the methods' totals, no in-flight counter is negative, and no    *)
(* total, timeout or rate-limited counter decreases in any step.           *)
(***************************************************************************)
RECURSIVE SumOf(_, _)
SumOf(f, S) ==
    IF S = {} THEN 0
    ELSE LET x == CHOOSE y \in S : TRUE IN f[x] + SumOf(f, S \ {x})

NotDecreasing(f, g) == \A x \in DOMAIN f : g[x] >= f[x]

C36_RegistryConsistency ==
    /\ [](/\ stats.inFlight = SumOf(stats.perProviderInFlight, ProviderIds)
          /\ stats.total = SumOf(stats.perProviderTotal, ProviderIds)
          /\ stats.total = SumOf(stats.perMethod, Methods)
          /\ stats.inFlight >= 0
          /\ \A p \in ProviderIds : stats.perProviderInFlight[p] >= 0)
    /\ [][/\ stats'.total >= stats.total
          /\ stats'.timeoutTotal >= stats.timeoutTotal
          /\ stats'.rateLimitedTotal >= stats.rateLimitedTotal
          /\ NotDecreasing(stats.perMethod, stats'.perMethod)
          /\ NotDecreasing(stats.perProviderTotal, stats'.perProviderTotal)
          /\ NotDecreasing(stats.perProviderTimeout, stats'.perProviderTimeout)
          /\ NotDecreasing(stats.perProviderRateLimited, stats'.perProviderRateLimited)]_vars

C36_Witness ==
    /\ stats.total = MaxRegCalls
    /\ stats.inFlight = 2
    /\ stats.perProviderInFlight[1] = 1
    /\ stats.perProviderInFlight[2] = 1
    /\ regOpen[1] = 1
    /\ regOpen[2] = 1
    /\ stats.perProviderTotal[1] = 2
    /\ stats.perMethod["eth_call"] = 1
    /\ stats.timeoutTotal = 1

(***************************************************************************)
(* C2 as stated: the requests sent to the endpoint's base client and not   *)
(* yet settled are never more than the configured inFlight.                *)
(***************************************************************************)
PendingAtBase == {c \in Calls : base[c] = "pending"}

C2_PendingAtBaseWithinLimit == Cardinality(PendingAtBase) <= max

(***************************************************************************)
(* C2, amended: the calls that were forwarded to the base client and have  *)
(* neither settled nor timed out, nor released their slot yet, are never   *)
(* more than the configured inFlight; a further send() is forwarded only   *)
(* while fewer than inFlight such calls exist.  A request whose call timed *)
(* out may still be pending at the base client.                            *)
(***************************************************************************)
HoldingSlot == {c \in Calls : cpc[c] \in {"inflight", "releasing"}}

C2_ConcurrencyLimit ==
    /\ Cardinality(HoldingSlot) <= max
    /\ \A c \in HoldingSlot : handle[c] = "live"

C2_Witness ==
    /\ Cardinality(HoldingSlot) = max
    /\ \E c \in Calls : cpc[c] = "inflight" /\ base[c] = "pending"
    /\ \E c \in Calls : cpc[c] = "acquiring" /\ handle[c] = "queued"

(***************************************************************************)
(* C3: when the first attempted endpoint fails with an error that is       *)
(* neither rate-limit nor timeout classified, send() throws that same      *)
(* error at once: no backoff, no second pick(), no other endpoint invoked. *)
(***************************************************************************)
C3_TerminalErrorThrownAtOnce ==
    (lastErr # NoErr /\ ~(isRateLimitError(lastErr) \/ isTimeoutError(lastErr))
        /\ Cardinality(tried) = 1)
    => /\ spc = "failure"
       /\ outcome.kind = "throw"
       /\ outcome.err = lastErr
       /\ picks = 1
       /\ backoffs = 0
       /\ \A p \in ProviderIds : invoked[p] = (IF p = lastErr.from THEN 1 ELSE 0)

\* a 400 from the first endpoint although a failover was possible
C3_Witness ==
    /\ spc = "failure"
    /\ lastErr.status = 400
    /\ Cardinality(tried) = 1
    /\ urlCount >= 2
    /\ attempts >= 2

(***************************************************************************)
(* C4: when an attempt fails with a failover-eligible error and the budget *)
(* is not spent, send() starts the backoff wait, invokes nothing while it  *)
(* waits, can leave the loop after the wait only by attempting an endpoint *)
(* whose providerId differs from every one tried, and returns that         *)
(* endpoint's result when the attempt succeeds.                            *)
(***************************************************************************)
C4_Failover ==
    [][ /\ (spc = "attempting" /\ spc' \in {"backoff", "failure"}
              /\ (isRateLimitError(lastErr') \/ isTimeoutError(lastErr'))
              /\ Cardinality(tried) < Budget)
           => (spc' = "backoff" /\ backoffs' = backoffs + 1 /\ invoked' = invoked)
        /\ (spc = "backoff")
           => (spc' \in {"backoff", "loop"} /\ invoked' = invoked /\ tried' = tried)
        /\ (spc = "loop" /\ backoffs > 0)
           => spc' \in {"loop", "attempting"}
        /\ (spc = "loop" /\ spc' = "attempting")
           => (cur' \notin tried /\ tried' = tried \cup {cur'}
               /\ invoked' = [invoked EXCEPT ![cur'] = 1])
        /\ (spc = "attempting" /\ spc' = "success")
           => (outcome'.kind = "ok" /\ outcome'.ep = cur)
      ]_vars

\* a failover that succeeded on another endpoint after a backoff
C4_Witness ==
    /\ spc = "success"
    /\ backoffs >= 1
    /\ isRateLimitError(lastErr)
    /\ outcome.ep # lastErr.from
    /\ outcome.ep = cur

(***************************************************************************)
(* C5: send() never invokes one providerId twice in one invocation; when   *)
(* pick() returns a providerId already tried, the loop goes on to the next *)
(* pick with tried, the invoked clients and the backoffs unchanged.        *)
(***************************************************************************)
C5_NoDuplicateInvocation ==
    /\ [](\A p \in ProviderIds : invoked[p] <= 1)
    /\ [][ (spc = "loop" /\ Cardinality(tried) < maxUniqueTries /\ urlCount > 0
               /\ pick.ep \in tried)
           => (spc' = "loop" /\ tried' = tried /\ invoked' = invoked
               /\ backoffs' = backoffs /\ delay' = delay /\ cur' = cur)
         ]_vars

\* an attempt made after a pick that was skipped
C5_Witness ==
    /\ spc = "attempting"
    /\ picks > InvokedTotal
    /\ InvokedTotal >= 2

(***************************************************************************)
(* C6: the number of endpoint clients one send() invokes never exceeds     *)
(* min(retry.attempts, endpoint count); with attempts = 1 exactly one      *)
(* endpoint is invoked, and its error is thrown even when it is            *)
(* failover-eligible.                                                      *)
(***************************************************************************)
C6_AttemptBudget ==
    /\ InvokedTotal <= Budget
    /\ Cardinality(tried) <= Budget
    /\ (attempts = 1 /\ urlCount >= 1 /\ spc \in {"success", "failure"})
       => InvokedTotal = 1
    /\ (attempts = 1 /\ lastErr # NoErr)
       => (spc = "failure" /\ outcome.kind = "throw" /\ outcome.err = lastErr)

\* attempts = 1, several endpoints, a failover-eligible error thrown
C6_Witness ==
    /\ attempts = 1
    /\ urlCount >= 2
    /\ spc = "failure"
    /\ isTimeoutError(lastErr)
    /\ InvokedTotal = 1

C8_LastErrorThrown ==
    /\ (outcome.kind = "norpc") => (Budget = 0 /\ InvokedTotal = 0)
    /\ (spc = "failure" /\ InvokedTotal > 0)
       => (outcome.kind = "throw" /\ outcome.err = lastErr /\ lastErr.from = cur
           /\ invoked[cur] = 1)

\* the budget of two or more endpoints used up by failover-eligible errors
C8_Witness ==
    /\ spc = "failure"
    /\ (isRateLimitError(lastErr) \/ isTimeoutError(lastErr))
    /\ Cardinality(tried) >= 2
    /\ Cardinality(tried) = Budget

(***************************************************************************)
(* C9: with no endpoint configured, send() fails with 'No RPC available'   *)
(* and Router.pick() is never called, whatever retry.attempts is.          *)
(***************************************************************************)
C9_NoEndpoints ==
    (urlCount = 0)
    => /\ picks = 0
       /\ spc \in {"idle", "loop", "failure"}
       /\ (spc = "failure") => (outcome = NoRpcAvailable)

\* no endpoint, the greatest attempts value, the call has failed
C9_Witness ==
    /\ urlCount = 0
    /\ attempts = MaxAttempts
    /\ spc = "failure"

(***************************************************************************)
(* C10: the wait taken after the k-th unique failed attempt (k =           *)
(* tried.size) is at least 0 and at most 1000, 2000, 4000, 5000, 5000, ... *)
(* ms, and the first attempt is made with no wait.                         *)
(***************************************************************************)
BackoffCap(k) ==
    CASE k = 1 -> 1000
      [] k = 2 -> 2000
      [] k = 3 -> 4000
      [] OTHER -> 5000

C10_BackoffBound ==
    /\ (spc = "backoff")
       => (delay >= 0 /\ delay <= BackoffCap(Cardinality(tried)))
    /\ (spc = "attempting" /\ Cardinality(tried) = 1)
       => (backoffs = 0 /\ delay = 0)

\* the wait after the fourth failure, where the 5000 ms cap is what bounds it
C10_Witness ==
    /\ spc = "backoff"
    /\ Cardinality(tried) = 4
    /\ delay > 2000

====
